---- MODULE Spec2Model ----
(***************************************************************************)
(* gulp-stylelint-checkstyle: a through2 object stream that lints every    *)
(* buffered file with postcss/stylelint, forwards the files untouched and, *)
(* when the stream ends, hands the lint results to its reporters.          *)
(*                                                                         *)
(* The model follows src/src/index.js.  Promise reactions are microtasks:  *)
(* they are kept in the FIFO queue "jobs" and run to the end before the    *)
(* event loop delivers the next record or the completion of a lint         *)
(* operation, of mkdirp or of writeFile.                                   *)
(***************************************************************************)
EXTENDS Integers, Sequences, FiniteSets, TLC

\* Largest number of records piped through the stream in one run.
MaxFiles == 3

pluginName == "gulp-stylelint-checkstyle"

VARIABLES
  options,          \* [reportToConsole, failAfterAllErrors]
  hasErrorListener, \* does the stream have an 'error' listener
  received,         \* records handed to onFile, in arrival order
  pushed,           \* records forwarded downstream by done(null, file)
  promiseList,      \* the promises pushed by onFile
  outOfOrder,       \* a lint promise settled before one pushed earlier
  ended,            \* onStreamEnd has been called
  pAll,             \* Promise.all(promiseList) of onStreamEnd
  jobs,             \* promise reaction jobs, FIFO
  invoked,          \* reporter calls made by provideResultsToReporters
  consoleLog,       \* lines logged through gulpUtil.log
  pReporters,       \* Promise.all of the reporters' return values
  mkdirpState,      \* mkdirp(outputDir)
  writeState,       \* fsp.writeFile(outputFile, xmlString)
  xmlString,        \* the argument of outputWriter
  outputFile,       \* the documents written to outputFile, oldest first
  errorEvents,      \* errors raised on the stream's error channel
  swallowed,        \* emit('error') calls that threw inside the try block
  doneCalls,        \* calls of onStreamEnd's done callback
  unhandled         \* reasons of rejected promises nobody handles

vars == <<options, hasErrorListener, received, pushed, promiseList,
          outOfOrder, ended, pAll, jobs, invoked, consoleLog, pReporters,
          mkdirpState, writeState, xmlString, outputFile, errorEvents,
          swallowed, doneCalls, unhandled>>

----------------------------------------------------------------------------
\* Values

\* An Error object: what failed, a number it carries, and a wording.
Err(kind, n, text) == [kind |-> kind, n |-> n, text |-> text]

NoErr == Err("", 0, "")

\* new gulpUtil.PluginError(pluginName, error)
PluginError(plugin, error) == [plugin |-> plugin, error |-> error]

\* Stylelint messages as postcss reports them; "plugin" names the postcss
\* plugin that produced the message.
mW == [line |-> 1, column |-> 2, severity |-> "warning", text |-> "w",
       plugin |-> "stylelint"]

mE == [line |-> 3, column |-> 4, severity |-> "error", text |-> "e",
       plugin |-> "stylelint"]

mO == [line |-> 5, column |-> 6, severity |-> "warning", text |-> "o",
       plugin |-> "other"]

\* The message lists a lint operation may resolve with.
MessageLists == {<<>>, <<mW>>, <<mO, mE>>}

\* The three states of a vinyl file: isNull(), isStream(), or buffered.
FileKinds == {"null", "stream", "buffer"}

\* The value a fulfilled lint promise carries.
ResultOf(p) == [opts |-> [from |-> p.from], messages |-> p.messages]

\* The reason a rejected lint promise carries.
ReasonOf(p) == Err("lint", p.from, "")

----------------------------------------------------------------------------
\* Console reporter

consoleMessageReporter(message) ==
  [type |-> "message", from |-> 0, line |-> message.line,
   column |-> message.column,
   notice |-> IF message.severity = "error" THEN "error" ELSE "warning",
   text |-> message.text]

consoleResultReporter(result) ==
  LET own == SelectSeq(result.messages, LAMBDA m : m.plugin = "stylelint")
  IN  <<[type |-> "header", from |-> result.opts.from, line |-> 0,
         column |-> 0, notice |-> "", text |-> ""]>>
      \o [i \in 1..Len(own) |-> consoleMessageReporter(own[i])]

RECURSIVE consoleResultListReporter(_)
consoleResultListReporter(resultList) ==
  IF resultList = <<>> THEN <<>>
  ELSE (IF Len(Head(resultList).messages) > 0
          THEN consoleResultReporter(Head(resultList)) ELSE <<>>)
       \o consoleResultListReporter(Tail(resultList))

----------------------------------------------------------------------------
\* Checkstyle reporter

\* Severity type mapping between Stylelint and Checkstyle of the earlier
\* version of the plugin.  The keys of an object are strings.
severityTypeMapping ==
  [key \in {"1", "2"} |-> IF key = "1" THEN "warning" ELSE "error"]

\* The message adapter of the earlier version: the severity goes through
\* severityTypeMapping, and a key the mapping lacks gives undefined.
stylelintToCheckstyleMessageAdapterByTable(message) ==
  [line |-> message.line, column |-> message.column,
   severity |-> IF message.severity \in DOMAIN severityTypeMapping
                  THEN severityTypeMapping[message.severity]
                  ELSE "undefined",
   message |-> message.text]

\* The message adapter losing the severity.
messageAdapterSeverityLost(message) ==
  [line |-> message.line, column |-> message.column,
   severity |-> "undefined", message |-> message.text]

stylelintToCheckstyleMessageAdapter(message) ==
  [line |-> message.line, column |-> message.column,
   severity |-> message.severity, message |-> message.text]

\* The message list adapter without its filter on message.plugin.
messageListAdapterNoFilter(messageList) ==
  [i \in 1..Len(messageList) |->
     stylelintToCheckstyleMessageAdapter(messageList[i])]

stylelintToCheckstyleMessageListAdapter(messageList) ==
  LET own == SelectSeq(messageList, LAMBDA m : m.plugin = "stylelint")
  IN  [i \in 1..Len(own) |-> stylelintToCheckstyleMessageAdapter(own[i])]

stylelineToCheckstyleResultAdapter(result) ==
  [filename |-> result.opts.from,
   messages |-> stylelintToCheckstyleMessageListAdapter(result.messages)]

\* The result list adapter filtering after the adaptation, on the adapted
\* messages.
resultListAdapterFilterAfter(resultList) ==
  SelectSeq([i \in 1..Len(resultList) |->
               stylelineToCheckstyleResultAdapter(resultList[i])],
            LAMBDA r : Len(r.messages) > 0)

stylelintToCheckstyleResultListAdapter(resultList) ==
  LET kept == SelectSeq(resultList, LAMBDA r : Len(r.messages) > 0)
  IN  [i \in 1..Len(kept) |-> stylelineToCheckstyleResultAdapter(kept[i])]

\* checkstyle-formatter: one <file> element per result, followed by one
\* <error> element per message of that result.
FileElement(result) ==
  [tag |-> "file", name |-> result.filename, line |-> 0, column |-> 0,
   severity |-> "", message |-> ""]

ErrorElement(m) ==
  [tag |-> "error", name |-> 0, line |-> m.line, column |-> m.column,
   severity |-> m.severity, message |-> m.message]

RECURSIVE checkstyleFormatter(_)
checkstyleFormatter(results) ==
  IF results = <<>> THEN <<>>
  ELSE <<FileElement(Head(results))>>
       \o [i \in 1..Len(Head(results).messages) |->
             ErrorElement(Head(results).messages[i])]
       \o checkstyleFormatter(Tail(results))

----------------------------------------------------------------------------
\* Fail-after-all-errors reporter

RECURSIVE countIssuesInResultList(_)
countIssuesInResultList(resultList) ==
  IF resultList = <<>> THEN 0
  ELSE Len(Head(resultList).messages)
       + countIssuesInResultList(Tail(resultList))

\* The reporter with the test errorCount > 1 in place of errorCount > 0.
failAfterAllErrorsOffByOne(resultList) ==
  LET errorCount == countIssuesInResultList(resultList)
  IN  IF errorCount > 1
        THEN Err("issues", errorCount,
                 IF errorCount = 1 THEN "issue has" ELSE "issues have")
        ELSE NoErr

\* The error failAfterAllErrorsReporter throws, NoErr when it returns.
failAfterAllErrorsReporter(resultList) ==
  LET errorCount == countIssuesInResultList(resultList)
  IN  IF errorCount > 0
        THEN Err("issues", errorCount,
                 IF errorCount = 1 THEN "issue has" ELSE "issues have")
        ELSE NoErr

----------------------------------------------------------------------------
\* Promises

Job(name, ok, value, reason) ==
  [name |-> name, ok |-> ok, value |-> value, reason |-> reason]

Rejected(list) == {i \in 1..Len(list) : list[i].state = "rejected"}

Min(S) == CHOOSE i \in S : \A j \in S : i <= j

\* A variant of Promise.all that settles as soon as one promise fulfils.
PromiseRace(list) ==
  IF Rejected(list) # {}
    THEN [state |-> "rejected", value |-> <<>>,
          reason |-> ReasonOf(list[Min(Rejected(list))])]
  ELSE IF list = <<>> \/ \E i \in 1..Len(list) : list[i].state = "fulfilled"
    THEN [state |-> "fulfilled",
          value |-> [i \in 1..Len(list) |-> ResultOf(list[i])],
          reason |-> NoErr]
  ELSE [state |-> "pending", value |-> <<>>, reason |-> NoErr]

\* A variant of Promise.all that waits for every promise to settle and
\* keeps the values of those that fulfilled.
PromiseAllSettled(list) ==
  IF \A i \in 1..Len(list) : list[i].state # "pending"
    THEN LET good == SelectSeq(list, LAMBDA p : p.state = "fulfilled")
         IN  [state |-> "fulfilled",
              value |-> [i \in 1..Len(good) |-> ResultOf(good[i])],
              reason |-> NoErr]
    ELSE [state |-> "pending", value |-> <<>>, reason |-> NoErr]

\* Promise.all(list): rejected with the reason of the first promise seen
\* rejected, fulfilled with the values in list order once all fulfilled.
PromiseAll(list) ==
  IF Rejected(list) # {}
    THEN [state |-> "rejected", value |-> <<>>,
          reason |-> ReasonOf(list[Min(Rejected(list))])]
  ELSE IF \A i \in 1..Len(list) : list[i].state = "fulfilled"
    THEN [state |-> "fulfilled",
          value |-> [i \in 1..Len(list) |-> ResultOf(list[i])],
          reason |-> NoErr]
  ELSE [state |-> "pending", value |-> <<>>, reason |-> NoErr]

\* The reaction of .then(provideResultsToReporters) to a settled pAll.
AllJobs(p) ==
  IF p.state = "pending" THEN <<>>
  ELSE <<Job("provideResultsToReporters", p.state = "fulfilled",
             p.value, p.reason)>>

----------------------------------------------------------------------------
\* State after gulpStylelintCheckstyle(options)

Init ==
  /\ options \in [reportToConsole : BOOLEAN, failAfterAllErrors : BOOLEAN]
  /\ hasErrorListener \in BOOLEAN
  /\ received = <<>>
  /\ pushed = <<>>
  /\ promiseList = <<>>
  /\ outOfOrder = FALSE
  /\ ended = FALSE
  /\ pAll = [state |-> "none", value |-> <<>>, reason |-> NoErr]
  /\ jobs = <<>>
  /\ invoked = <<>>
  /\ consoleLog = <<>>
  /\ pReporters = "none"
  /\ mkdirpState = "none"
  /\ writeState = "none"
  /\ xmlString = <<>>
  /\ outputFile = <<>>
  /\ errorEvents = <<>>
  /\ swallowed = 0
  /\ doneCalls = 0
  /\ unhandled = {}

----------------------------------------------------------------------------
\* onFile

\* done() called without the file.
passNothing(file) == pushed' = pushed

\* done(null, file)
passThrough(file) == pushed' = Append(pushed, file)

\* The error is emitted and also handed to done.
streamingEmittedTwice(file) ==
  /\ errorEvents' = errorEvents \o
       << PluginError(pluginName, Err("Streaming not supported", 0, "")),
          PluginError(pluginName, Err("Streaming not supported", 0, "")) >>
  /\ pushed' = pushed

\* done(error, file): the record goes downstream along with the error.
streamingForwarded(file) ==
  /\ errorEvents' = Append(errorEvents,
       PluginError(pluginName, Err("Streaming not supported", 0, "")))
  /\ pushed' = Append(pushed, file)

\* done(new gulpUtil.PluginError(pluginName, 'Streaming not supported'))
streamingNotSupported(file) ==
  /\ errorEvents' = Append(errorEvents,
       PluginError(pluginName, Err("Streaming not supported", 0, "")))
  /\ pushed' = pushed

\* promiseList.unshift(...) in place of push.
launchFirst(file) ==
  promiseList' = <<[from |-> file.path, state |-> "pending",
                    messages |-> <<>>]>> \o promiseList

\* promiseList.push(postcssProcessor.process(fileContents, {from: file.path}))
launch(file) ==
  promiseList' = Append(promiseList,
    [from |-> file.path, state |-> "pending", messages |-> <<>>])

onFile ==
  /\ ~ended
  /\ Len(received) < MaxFiles
  /\ \E kind \in FileKinds :
       LET file == [path |-> Len(received) + 1, kind |-> kind]
       IN  /\ received' = Append(received, file)
           /\ IF kind = "null"
                THEN passThrough(file) /\ UNCHANGED <<promiseList, errorEvents>>
              ELSE IF kind = "stream"
                THEN streamingNotSupported(file) /\ UNCHANGED promiseList
              ELSE launch(file) /\ passThrough(file) /\ UNCHANGED errorEvents
  /\ UNCHANGED <<options, hasErrorListener, outOfOrder, ended, pAll, jobs,
                 invoked, consoleLog, pReporters, mkdirpState, writeState,
                 xmlString, outputFile, swallowed, doneCalls, unhandled>>

\* A lint operation started by onFile resolves or rejects.
lintSettles ==
  /\ jobs = <<>>
  /\ \E i \in 1..Len(promiseList) :
       /\ promiseList[i].state = "pending"
       /\ \/ \E ms \in MessageLists :
               promiseList' = [promiseList EXCEPT
                 ![i] = [from |-> @.from, state |-> "fulfilled",
                         messages |-> ms]]
          \/ promiseList' = [promiseList EXCEPT ![i].state = "rejected"]
       /\ outOfOrder' = (outOfOrder \/ \E j \in 1..(i - 1) :
                                        promiseList[j].state = "pending")
  /\ IF pAll.state = "pending"
       THEN pAll' = PromiseAll(promiseList') /\ jobs' = AllJobs(pAll')
       ELSE UNCHANGED <<pAll, jobs>>
  /\ UNCHANGED <<options, hasErrorListener, received, pushed, ended, invoked,
                 consoleLog, pReporters, mkdirpState, writeState, xmlString,
                 outputFile, errorEvents, swallowed, doneCalls, unhandled>>

----------------------------------------------------------------------------
\* onStreamEnd

onStreamEnd ==
  /\ ~ended
  /\ ended' = TRUE
  /\ pAll' = PromiseAll(promiseList)
  /\ jobs' = AllJobs(pAll')
  /\ UNCHANGED <<options, hasErrorListener, received, pushed, promiseList,
                 outOfOrder, invoked, consoleLog, pReporters, mkdirpState,
                 writeState, xmlString, outputFile, errorEvents, swallowed,
                 doneCalls, unhandled>>

\* The reporters selected by the options, in the order they are called.
ReportersFailFirst ==
  (IF options.failAfterAllErrors
     THEN <<"failAfterAllErrorsReporter">> ELSE <<>>)
  \o <<"checkstyleReporter">>
  \o (IF options.reportToConsole
        THEN <<"consoleResultListReporter">> ELSE <<>>)

\* The console reporter taking the place of checkstyleReporter.
ReportersConsoleInstead ==
  (IF options.reportToConsole
     THEN <<"consoleResultListReporter">> ELSE <<"checkstyleReporter">>)
  \o (IF options.failAfterAllErrors
        THEN <<"failAfterAllErrorsReporter">> ELSE <<>>)

reporters ==
  <<"checkstyleReporter">>
  \o (IF options.reportToConsole
        THEN <<"consoleResultListReporter">> ELSE <<>>)
  \o (IF options.failAfterAllErrors
        THEN <<"failAfterAllErrorsReporter">> ELSE <<>>)

\* What the call reporter(results) throws, NoErr when it returns.
Thrown(reporter, results) ==
  IF reporter = "failAfterAllErrorsReporter"
    THEN failAfterAllErrorsReporter(results) ELSE NoErr

\* reporters.map(reporter => reporter(results)) stops at the first throw.
Called(list, results) ==
  LET throwers == {i \in 1..Len(list) : Thrown(list[i], results) # NoErr}
  IN  IF throwers = {} THEN list ELSE SubSeq(list, 1, Min(throwers))

Has(list, reporter) == \E i \in 1..Len(list) : list[i] = reporter

provideResultsToReporters ==
  /\ jobs # <<>>
  /\ Head(jobs).name = "provideResultsToReporters"
  /\ LET job == Head(jobs)
         results == job.value
         called == Called(reporters, results)
         thrown == Thrown(called[Len(called)], results)
         writer == Has(called, "checkstyleReporter")
     IN  IF ~job.ok
           THEN /\ jobs' = Tail(jobs) \o <<Job("done", FALSE, <<>>, job.reason)>>
                /\ UNCHANGED <<invoked, consoleLog, pReporters>>
           ELSE /\ invoked' = invoked \o
                     [i \in 1..Len(called) |->
                        [reporter |-> called[i], results |-> results]]
                /\ consoleLog' =
                     IF Has(called, "consoleResultListReporter")
                       THEN consoleLog \o consoleResultListReporter(results)
                       ELSE consoleLog
                /\ jobs' = Tail(jobs)
                     \o (IF writer
                           THEN <<Job("adapter", TRUE, results, NoErr)>>
                           ELSE <<>>)
                     \o (IF thrown # NoErr
                           THEN <<Job("done", FALSE, <<>>, thrown)>>
                         ELSE IF writer THEN <<>>
                         ELSE <<Job("done", TRUE, <<>>, NoErr)>>)
                /\ pReporters' = IF thrown # NoErr THEN "rejected"
                                 ELSE IF writer THEN "pending"
                                 ELSE "fulfilled"
  /\ UNCHANGED <<options, hasErrorListener, received, pushed, promiseList,
                 outOfOrder, ended, pAll, mkdirpState, writeState, xmlString,
                 outputFile, errorEvents, swallowed, doneCalls, unhandled>>

\* .then(() => done())
thenDone ==
  /\ jobs # <<>>
  /\ Head(jobs).name = "done"
  /\ IF Head(jobs).ok
       THEN /\ doneCalls' = doneCalls + 1
            /\ \E raises \in BOOLEAN :
                 jobs' = Tail(jobs) \o
                   (IF raises
                      THEN <<Job("catch", FALSE, <<>>, Err("done", 0, ""))>>
                      ELSE <<>>)
       ELSE /\ jobs' = Tail(jobs)
                 \o <<Job("catch", FALSE, <<>>, Head(jobs).reason)>>
            /\ UNCHANGED doneCalls
  /\ UNCHANGED <<options, hasErrorListener, received, pushed, promiseList,
                 outOfOrder, ended, pAll, invoked, consoleLog, pReporters,
                 mkdirpState, writeState, xmlString, outputFile, errorEvents,
                 swallowed, unhandled>>

\* The handler without its try block: a throwing emit leaves the handler.
catchErrorNoTry ==
  /\ jobs # <<>>
  /\ Head(jobs).name = "catch"
  /\ errorEvents' = Append(errorEvents,
                           PluginError(pluginName, Head(jobs).reason))
  /\ IF hasErrorListener
       THEN /\ doneCalls' = doneCalls + 1
            /\ \E raises \in BOOLEAN :
                 unhandled' = IF raises
                                THEN unhandled \cup {Err("done", 0, "")}
                                ELSE unhandled
       ELSE /\ doneCalls' = doneCalls
            /\ unhandled' = unhandled \cup {Head(jobs).reason}
  /\ jobs' = Tail(jobs)
  /\ UNCHANGED <<options, hasErrorListener, received, pushed, promiseList,
                 outOfOrder, ended, pAll, invoked, consoleLog, pReporters,
                 mkdirpState, writeState, xmlString, outputFile, swallowed>>

\* .catch(error => { try { this.emit('error', ...) } catch (e) {} done() })
catchError ==
  /\ jobs # <<>>
  /\ Head(jobs).name = "catch"
  /\ errorEvents' = Append(errorEvents,
                           PluginError(pluginName, Head(jobs).reason))
  /\ swallowed' = IF hasErrorListener THEN swallowed ELSE swallowed + 1
  /\ doneCalls' = doneCalls + 1
  /\ \E raises \in BOOLEAN :
       unhandled' = IF raises THEN unhandled \cup {Err("done", 0, "")}
                    ELSE unhandled
  /\ jobs' = Tail(jobs)
  /\ UNCHANGED <<options, hasErrorListener, received, pushed, promiseList,
                 outOfOrder, ended, pAll, invoked, consoleLog, pReporters,
                 mkdirpState, writeState, xmlString, outputFile>>

----------------------------------------------------------------------------
\* checkstyleReporter and outputWriter

\* .then(stylelintToCheckstyleResultListAdapter)
adaptResults ==
  /\ jobs # <<>>
  /\ Head(jobs).name = "adapter"
  /\ jobs' = Tail(jobs) \o
       <<Job("formatter", TRUE,
             stylelintToCheckstyleResultListAdapter(Head(jobs).value), NoErr)>>
  /\ UNCHANGED <<options, hasErrorListener, received, pushed, promiseList,
                 outOfOrder, ended, pAll, invoked, consoleLog, pReporters,
                 mkdirpState, writeState, xmlString, outputFile, errorEvents,
                 swallowed, doneCalls, unhandled>>

\* .then(checkstyleFormatter)
formatResults ==
  /\ jobs # <<>>
  /\ Head(jobs).name = "formatter"
  /\ jobs' = Tail(jobs) \o
       <<Job("outputWriter", TRUE, checkstyleFormatter(Head(jobs).value),
             NoErr)>>
  /\ UNCHANGED <<options, hasErrorListener, received, pushed, promiseList,
                 outOfOrder, ended, pAll, invoked, consoleLog, pReporters,
                 mkdirpState, writeState, xmlString, outputFile, errorEvents,
                 swallowed, doneCalls, unhandled>>

\* .then(outputWriter): mkdirp(outputDir) is started.
outputWriter ==
  /\ jobs # <<>>
  /\ Head(jobs).name = "outputWriter"
  /\ xmlString' = Head(jobs).value
  /\ mkdirpState' = "pending"
  /\ jobs' = Tail(jobs)
  /\ UNCHANGED <<options, hasErrorListener, received, pushed, promiseList,
                 outOfOrder, ended, pAll, invoked, consoleLog, pReporters,
                 writeState, outputFile, errorEvents, swallowed, doneCalls,
                 unhandled>>

\* The promise of checkstyleReporter rejects: Promise.all of the reporters
\* passes the reason on when it was built, nobody hears of it otherwise.
mkdirpSettles ==
  /\ jobs = <<>>
  /\ mkdirpState = "pending"
  /\ \/ /\ mkdirpState' = "fulfilled"
        /\ jobs' = <<Job("writeFile", TRUE, <<>>, NoErr)>>
        /\ UNCHANGED <<pReporters, unhandled>>
     \/ /\ mkdirpState' = "rejected"
        /\ IF pReporters = "pending"
             THEN /\ pReporters' = "rejected"
                  /\ jobs' = <<Job("done", FALSE, <<>>, Err("mkdirp", 0, ""))>>
                  /\ UNCHANGED unhandled
             ELSE /\ unhandled' = unhandled \cup {Err("mkdirp", 0, "")}
                  /\ UNCHANGED <<pReporters, jobs>>
  /\ UNCHANGED <<options, hasErrorListener, received, pushed, promiseList,
                 outOfOrder, ended, pAll, invoked, consoleLog, writeState,
                 xmlString, outputFile, errorEvents, swallowed, doneCalls>>

\* .then(() => fsp.writeFile(outputFile, xmlString))
writeFile ==
  /\ jobs # <<>>
  /\ Head(jobs).name = "writeFile"
  /\ writeState' = "pending"
  /\ jobs' = Tail(jobs)
  /\ UNCHANGED <<options, hasErrorListener, received, pushed, promiseList,
                 outOfOrder, ended, pAll, invoked, consoleLog, pReporters,
                 mkdirpState, xmlString, outputFile, errorEvents, swallowed,
                 doneCalls, unhandled>>

writeFileSettles ==
  /\ jobs = <<>>
  /\ writeState = "pending"
  /\ \E ok \in BOOLEAN :
       /\ writeState' = IF ok THEN "fulfilled" ELSE "rejected"
       /\ outputFile' = IF ok THEN Append(outputFile, xmlString)
                        ELSE outputFile
       /\ IF pReporters = "pending"
            THEN /\ pReporters' = writeState'
                 /\ jobs' = <<Job("done", ok, <<>>,
                                  IF ok THEN NoErr
                                  ELSE Err("writeFile", 0, ""))>>
                 /\ UNCHANGED unhandled
            ELSE /\ unhandled' = IF ok THEN unhandled
                                 ELSE unhandled \cup {Err("writeFile", 0, "")}
                 /\ UNCHANGED <<pReporters, jobs>>
  /\ UNCHANGED <<options, hasErrorListener, received, pushed, promiseList,
                 outOfOrder, ended, pAll, invoked, consoleLog, mkdirpState,
                 xmlString, errorEvents, swallowed, doneCalls>>

----------------------------------------------------------------------------
\* The host pipes records and ends the stream; everything else is the
\* event loop running what the stream has started.
Started ==
  \/ lintSettles
  \/ provideResultsToReporters
  \/ thenDone
  \/ catchError
  \/ adaptResults
  \/ formatResults
  \/ outputWriter
  \/ mkdirpSettles
  \/ writeFile
  \/ writeFileSettles

Next ==
  \/ onFile
  \/ onStreamEnd
  \/ Started

Spec == Init /\ [][Next]_vars

\* Every started asynchronous operation settles and every queued promise
\* reaction runs.
FairSpec == Spec /\ WF_vars(Started)

----------------------------------------------------------------------------
\* The reporting phase on its own: the stream has ended and Promise.all has
\* just fulfilled with the results of up to MaxResults buffered records, whose
\* messages mix the plugins and the severities in every way the lists below
\* allow.

\* Largest number of lint results handed to the reporters.
MaxResults == 2

ReportMessageLists ==
  {<<>>, <<mW>>, <<mO>>, <<mE, mW>>, <<mO, mE>>, <<mW, mO, mE>>}

ReportInit ==
  /\ options \in [reportToConsole : BOOLEAN, failAfterAllErrors : BOOLEAN]
  /\ hasErrorListener \in BOOLEAN
  /\ \E n \in 0..MaxResults :
       \E ms \in [1..n -> ReportMessageLists] :
         /\ received = [i \in 1..n |-> [path |-> i, kind |-> "buffer"]]
         /\ promiseList = [i \in 1..n |->
              [from |-> i, state |-> "fulfilled", messages |-> ms[i]]]
  /\ pushed = received
  /\ outOfOrder = FALSE
  /\ ended = TRUE
  /\ pAll = PromiseAll(promiseList)
  /\ jobs = AllJobs(pAll)
  /\ invoked = <<>>
  /\ consoleLog = <<>>
  /\ pReporters = "none"
  /\ mkdirpState = "none"
  /\ writeState = "none"
  /\ xmlString = <<>>
  /\ outputFile = <<>>
  /\ errorEvents = <<>>
  /\ swallowed = 0
  /\ doneCalls = 0
  /\ unhandled = {}

ReportNext ==
  \/ provideResultsToReporters
  \/ thenDone
  \/ catchError
  \/ adaptResults
  \/ formatResults
  \/ outputWriter
  \/ mkdirpSettles
  \/ writeFile
  \/ writeFileSettles

ReportSpec == ReportInit /\ [][ReportNext]_vars

----------------------------------------------------------------------------
\* Properties

Streaming == PluginError(pluginName, Err("Streaming not supported", 0, ""))

\* The error events emitted by the handler of onStreamEnd.
EndErrors == SelectSeq(errorEvents, LAMBDA e : e # Streaming)

StreamingRecords == SelectSeq(received, LAMBDA f : f.kind = "stream")

LintOf(path) ==
  promiseList[CHOOSE i \in 1..Len(promiseList) : promiseList[i].from = path]

\* The paths of the buffered records whose result has messages, in the
\* order the records arrived.
ArrivalFiles ==
  LET kept == SelectSeq(received, LAMBDA f :
                /\ f.kind = "buffer"
                /\ Len(LintOf(f.path).messages) > 0)
  IN  [i \in 1..Len(kept) |-> kept[i].path]

\* The names of the <file> elements of a written document, in order.
ReportFiles(doc) ==
  LET files == SelectSeq(doc, LAMBDA e : e.tag = "file")
  IN  [i \in 1..Len(files) |-> files[i].name]

\* The checkstyleReporter chain has reached its end.
WriterSettled ==
  \/ mkdirpState = "rejected"
  \/ writeState \in {"fulfilled", "rejected"}

\* C1: a reporter is called only after onStreamEnd, when every promise of
\* promiseList has fulfilled, and it is handed the results of all of them.
C1_ReportersAfterAllLint ==
  \A k \in 1..Len(invoked) :
    /\ ended
    /\ \A i \in 1..Len(promiseList) : promiseList[i].state = "fulfilled"
    /\ invoked[k].results =
         [i \in 1..Len(promiseList) |-> ResultOf(promiseList[i])]

C1_Witness ==
  /\ invoked # <<>>
  /\ Len(promiseList) >= 2
  /\ outOfOrder

\* C2: once onStreamEnd has been called, done is eventually called, whatever
\* fails, given that started operations settle and queued reactions run.
C2_StreamCompletes == ended ~> (doneCalls > 0)

C2_Witness ==
  /\ doneCalls > 0
  /\ swallowed > 0
  /\ \E i \in 1..Len(errorEvents) : errorEvents[i].error.kind = "mkdirp"

\* C3 as claimed: at most one error event per run.
C3_AtMostOneErrorEvent == Len(errorEvents) <= 1

\* C3 amended: the handler of onStreamEnd emits at most one error event, and
\* each streaming record raises exactly one on receipt.
C3_OneEndErrorOnePerStreaming ==
  /\ Len(EndErrors) <= 1
  /\ Len(errorEvents) = Len(StreamingRecords) + Len(EndErrors)

C3_Witness ==
  /\ Len(StreamingRecords) = 1
  /\ Len(EndErrors) = 1
  /\ EndErrors[1].error.kind = "issues"

\* C4 as claimed: no failure of a lint operation, of mkdirp, of writeFile or
\* of failAfterAllErrorsReporter is left as an unhandled rejection.
C4_NoUnhandledFailure ==
  \A e \in unhandled :
    e.kind \notin {"lint", "mkdirp", "writeFile", "issues"}

\* C5 as claimed: the error event and done come only after every reporter
\* that was called has finished, the write of checkstyleReporter included.
C5_AllReportersAwaited ==
  (doneCalls > 0 \/ EndErrors # <<>>) =>
    ((\E k \in 1..Len(invoked) : invoked[k].reporter = "checkstyleReporter")
       => WriterSettled)

\* C6: when every lint operation has succeeded, the write to outputFile
\* eventually takes place unless mkdirp fails, whatever the other reporters do.
C6_WriteHappens ==
  (pAll.state = "fulfilled") ~>
    (writeState \in {"fulfilled", "rejected"} \/ mkdirpState = "rejected")

C6_Witness ==
  /\ writeState = "fulfilled"
  /\ outputFile # <<>>
  /\ options.reportToConsole
  /\ \E i \in 1..Len(errorEvents) : errorEvents[i].error.kind = "issues"

\* C7: the <file> elements of a written report are in the order in which
\* their records arrived, whatever the order the lint operations settled in.
C7_ReportInArrivalOrder ==
  \A k \in 1..Len(outputFile) : ReportFiles(outputFile[k]) = ArrivalFiles

C7_Witness ==
  /\ outputFile # <<>>
  /\ Len(ReportFiles(outputFile[1])) >= 2
  /\ outOfOrder

\* C8: the records pushed downstream are the null and buffered records
\* received so far, each once, unchanged and in arrival order, in every state
\* (so before any lint operation settles); only buffered records start a
\* lint operation.
C8_PassThrough ==
  /\ pushed = SelectSeq(received, LAMBDA f : f.kind # "stream")
  /\ LET buffered == SelectSeq(received, LAMBDA f : f.kind = "buffer")
     IN  /\ Len(promiseList) = Len(buffered)
         /\ \A i \in 1..Len(buffered) : promiseList[i].from = buffered[i].path

C8_Witness ==
  /\ Len(pushed) = 3
  /\ \E i \in 1..3 : pushed[i].kind = "null"
  /\ \E i \in 1..Len(promiseList) : promiseList[i].state = "pending"
  /\ \E i \in 1..Len(promiseList) : promiseList[i].state = "rejected"

\* C9: receiving a streaming record raises 'Streaming not supported' on the
\* error channel at once, pushes nothing and leaves promiseList alone; the
\* other records of such a run are linted, pushed and reported as usual.
C9_StreamingRefused ==
  /\ [][(received' # received /\ received'[Len(received')].kind = "stream")
          => /\ errorEvents' = Append(errorEvents, Streaming)
             /\ pushed' = pushed
             /\ promiseList' = promiseList]_vars
  /\ [](StreamingRecords # <<>> =>
          /\ pushed = SelectSeq(received, LAMBDA f : f.kind # "stream")
          /\ Len(promiseList) =
               Len(SelectSeq(received, LAMBDA f : f.kind = "buffer"))
          /\ \A k \in 1..Len(outputFile) :
               ReportFiles(outputFile[k]) = ArrivalFiles)

C9_Witness ==
  /\ Len(received) = 3
  /\ received[1].kind = "buffer"
  /\ received[2].kind = "stream"
  /\ received[3].kind = "buffer"
  /\ Len(pushed) = 2
  /\ outputFile # <<>>
  /\ ReportFiles(outputFile[1]) = <<1, 3>>

\* C10: once a lint operation has failed no reporter is called, nothing is
\* logged or written, and done is called only together with the one error
\* event of onStreamEnd, which carries the reason of a failed lint operation.
C10_LintFailureAborts ==
  Rejected(promiseList) # {} =>
    /\ invoked = <<>>
    /\ consoleLog = <<>>
    /\ mkdirpState = "none"
    /\ writeState = "none"
    /\ outputFile = <<>>
    /\ doneCalls = Len(EndErrors)
    /\ doneCalls <= 1
    /\ \A i \in 1..Len(EndErrors) :
         /\ EndErrors[i] = PluginError(pluginName, pAll.reason)
         /\ \E j \in Rejected(promiseList) :
              pAll.reason = ReasonOf(promiseList[j])

C10_Witness ==
  /\ doneCalls = 1
  /\ Len(EndErrors) = 1
  /\ Rejected(promiseList) # {}
  /\ \E i \in 1..Len(promiseList) :
       promiseList[i].state = "fulfilled" /\ promiseList[i].messages # <<>>

\* The number of messages in the results of all lint operations.
TotalMessages ==
  Cardinality(UNION {{<<i, j>> : j \in 1..Len(promiseList[i].messages)} :
                       i \in 1..Len(promiseList)})

\* The calls of a reporter made so far.
CallsOf(reporter) == {k \in 1..Len(invoked) : invoked[k].reporter = reporter}

\* C11: once failAfterAllErrorsReporter has been called, it has thrown if and
\* only if the results hold at least one message; the error names the count,
\* worded "issue has" for one and "issues have" for more, and it ends as the
\* one error event of onStreamEnd, emitted together with the call of done.
C11_FailPolicy ==
  CallsOf("failAfterAllErrorsReporter") # {} =>
    LET n == TotalMessages
        e == Err("issues", n, IF n = 1 THEN "issue has" ELSE "issues have")
        thrown == {i \in 1..Len(jobs) : jobs[i].reason.kind = "issues"}
        emitted == {i \in 1..Len(errorEvents) :
                      errorEvents[i].error.kind = "issues"}
    IN  /\ n = 0 => thrown = {} /\ emitted = {}
        /\ n > 0 =>
             /\ pReporters = "rejected"
             /\ \/ /\ Cardinality(thrown) = 1
                   /\ \A i \in thrown : jobs[i].reason = e
                   /\ EndErrors = <<>>
                   /\ doneCalls = 0
                \/ /\ thrown = {}
                   /\ EndErrors = <<PluginError(pluginName, e)>>
                   /\ doneCalls = 1

C11_Witness ==
  /\ CallsOf("failAfterAllErrorsReporter") # {}
  /\ doneCalls = 1
  /\ EndErrors =
       <<PluginError(pluginName, Err("issues", 3, "issues have"))>>

\* C12: once the results of a run whose lint operations all succeeded have
\* been handed out, checkstyleReporter has been called exactly once, the
\* console reporter once if reportToConsole is set and never otherwise, the
\* fail reporter once if failAfterAllErrors is set and never otherwise, and
\* each call received the results of Promise.all; no reporter is called in
\* any other run.
C12_ReportersByOptions ==
  /\ pAll.state # "fulfilled" => invoked = <<>>
  /\ (/\ pAll.state = "fulfilled"
      /\ \A i \in 1..Len(jobs) : jobs[i].name # "provideResultsToReporters")
     => /\ Cardinality(CallsOf("checkstyleReporter")) = 1
        /\ Cardinality(CallsOf("consoleResultListReporter")) =
             (IF options.reportToConsole THEN 1 ELSE 0)
        /\ Cardinality(CallsOf("failAfterAllErrorsReporter")) =
             (IF options.failAfterAllErrors THEN 1 ELSE 0)
        /\ \A k \in 1..Len(invoked) : invoked[k].results = pAll.value

C12_Witness ==
  /\ Len(invoked) = 3
  /\ pReporters = "rejected"
  /\ invoked[3].reporter = "failAfterAllErrorsReporter"
  /\ outputFile # <<>>

\* C15 as claimed: outputFile is written at most once in a run, writeFile is
\* started only after mkdirp has succeeded, and a failure of mkdirp starts
\* no write and ends as an error event together with the call of done.
C15_SingleWriteAfterMkdirp ==
  /\ Len(outputFile) <= 1
  /\ writeState # "none" => mkdirpState = "fulfilled"
  /\ mkdirpState = "rejected" =>
       /\ writeState = "none"
       /\ jobs = <<>> =>
            /\ \E i \in 1..Len(errorEvents) :
                 errorEvents[i].error.kind = "mkdirp"
            /\ doneCalls >= 1

\* C16: when the stream has no error listener, the emit of the handler of
\* onStreamEnd throws inside the try block: the handler still calls done in
\* the same step, and the one rejection it can leave behind is that of a
\* raising done, never the emitted error.
C16_EmitFailureSwallowed ==
  [][(~hasErrorListener /\ Len(EndErrors') > Len(EndErrors))
       => /\ swallowed' = swallowed + 1
          /\ doneCalls' = doneCalls + 1
          /\ unhandled' \ unhandled \subseteq {Err("done", 0, "")}]_vars

C16_Witness ==
  /\ ~hasErrorListener
  /\ swallowed = 1
  /\ doneCalls = 1
  /\ unhandled = {}
  /\ Len(EndErrors) = 1
  /\ EndErrors[1].error.kind = "lint"

\* C18 as claimed: done is called at most once in a run.
C18_DoneCalledOnce == doneCalls <= 1

\* The k-th smallest element of a set of numbers.
KthOf(S, k) == CHOOSE i \in S : Cardinality({j \in S : j < i}) = k - 1

\* The positions of the results that have messages.
WithMessages(list) == {i \in 1..Len(list) : Len(list[i].messages) > 0}

\* The positions of the messages produced by stylelint.
Tagged(messages) ==
  {j \in 1..Len(messages) : messages[j].plugin = "stylelint"}

\* The positions of the <file> elements of a document.
FilePositions(doc) == {i \in 1..Len(doc) : doc[i].tag = "file"}

\* The <file> element at position i of a document has no <error> element.
EmptyEntry(doc, i) == i = Len(doc) \/ doc[i + 1].tag = "file"

\* C13 as claimed: every adapted result and every <file> element of a
\* written report has at least one message.
C13_EntriesHaveMessages ==
  /\ \A q \in 1..Len(jobs) :
       jobs[q].name = "formatter" =>
         \A k \in 1..Len(jobs[q].value) : jobs[q].value[k].messages # <<>>
  /\ \A d \in 1..Len(outputFile) :
       \A i \in FilePositions(outputFile[d]) : ~EmptyEntry(outputFile[d], i)

\* C13 amended: the adapted results and the <file> elements of a written
\* report are those of the results whose raw message list is not empty; such
\* an entry has no message exactly when none of the raw messages comes from
\* stylelint.
C13_EntriesOfResultsWithMessages ==
  LET raws == pAll.value
      kept == WithMessages(raws)
  IN  /\ \A q \in 1..Len(jobs) :
           jobs[q].name = "formatter" =>
             /\ Len(jobs[q].value) = Cardinality(kept)
             /\ \A k \in 1..Len(jobs[q].value) :
                  (jobs[q].value[k].messages = <<>>)
                    <=> (Tagged(raws[KthOf(kept, k)].messages) = {})
      /\ \A d \in 1..Len(outputFile) :
           LET doc == outputFile[d]
               files == FilePositions(doc)
           IN  /\ Cardinality(files) = Cardinality(kept)
               /\ \A k \in 1..Cardinality(files) :
                    EmptyEntry(doc, KthOf(files, k))
                      <=> (Tagged(raws[KthOf(kept, k)].messages) = {})

C13_Witness ==
  /\ outputFile # <<>>
  /\ Len(pAll.value) = 2
  /\ \E i \in FilePositions(outputFile[1]) : EmptyEntry(outputFile[1], i)
  /\ \E i \in FilePositions(outputFile[1]) : ~EmptyEntry(outputFile[1], i)

\* C14: the adapted list has, in input order, one entry for each result whose
\* raw message list is not empty; the entry carries the path of that result
\* and, in their original order, the messages of it that come from stylelint,
\* each reduced to line, column, severity and message.
C14_AdaptResultList ==
  \A q \in 1..Len(jobs) :
    jobs[q].name = "formatter" =>
      LET raws == pAll.value
          out == jobs[q].value
          kept == WithMessages(raws)
      IN  /\ Len(out) = Cardinality(kept)
          /\ \A k \in 1..Len(out) :
               LET raw == raws[KthOf(kept, k)]
                   own == Tagged(raw.messages)
               IN  /\ out[k].filename = raw.opts.from
                   /\ Len(out[k].messages) = Cardinality(own)
                   /\ \A j \in 1..Len(out[k].messages) :
                        LET r == raw.messages[KthOf(own, j)]
                        IN  out[k].messages[j] =
                              [line |-> r.line, column |-> r.column,
                               severity |-> r.severity, message |-> r.text]

C14_Witness ==
  \E q \in 1..Len(jobs) :
    /\ jobs[q].name = "formatter"
    /\ Len(pAll.value) = 2
    /\ pAll.value[1].messages = <<>>
    /\ pAll.value[2].messages = <<mW, mO, mE>>
    /\ Len(jobs[q].value) = 1
    /\ jobs[q].value[1].filename = 2
    /\ Len(jobs[q].value[1].messages) = 2

\* The raw message behind message j of entry k of an adapted list.
RawMessage(k, j) ==
  LET raw == pAll.value[KthOf(WithMessages(pAll.value), k)]
  IN  raw.messages[KthOf(Tagged(raw.messages), j)]

C19_ReportersAgree ==
  \A i \in 1..Len(errorEvents) :
    errorEvents[i].error.kind = "issues" =>
      /\ \A d \in 1..Len(outputFile) :
           Len(SelectSeq(outputFile[d], LAMBDA e : e.tag = "error"))
             = errorEvents[i].error.n
      /\ options.reportToConsole =>
           Len(SelectSeq(consoleLog, LAMBDA l : l.type = "message"))
             = errorEvents[i].error.n

====
